---- MODULE Spec2Model ----
(***************************************************************************)
(* A model of src/src/index.ts: YoutubeTranscript.fetchTranscript, its two *)
(* strategies (HTML scraping, InnerTube API), the shared                   *)
(* processTranscriptFromCaptions and retrieveVideoId.                      *)
(*                                                                         *)
(* Strings the code inspects character by character (the videoId input)    *)
(* are sequences of one-character strings.  Texts the code only searches   *)
(* for fixed markers (the watch page, the timed-text body) are sequences   *)
(* of tokens, one token per marker or per maximal piece between markers.   *)
(* Optional values (config.lang) are sequences of length 0 or 1.           *)
(* The HTTP transport is outside the repository: every request gets a      *)
(* response, drawn from the bounded sets below.                            *)
(***************************************************************************)
EXTENDS Integers, Sequences, FiniteSets, TLC

VARIABLES pc, videoId, config, requests, videoPageBody, captions,
          strategy, transcriptResponse, InnerTubeApiResponse, caught, outcome

vars == <<pc, videoId, config, requests, videoPageBody, captions,
          strategy, transcriptResponse, InnerTubeApiResponse, caught, outcome>>

(***************************************************************************)
(* Bounds of the model.                                                    *)
(***************************************************************************)
MaxBody == 3      \* tokens in a watch-page body
MaxTracks == 2    \* caption tracks in a track list
MaxElems == 2     \* pieces of a timed-text body

(***************************************************************************)
(* retrieveVideoId and RE_YOUTUBE                                          *)
(***************************************************************************)
IdLen == 11

UpperCase == <<"A","B","C","D","E","F","G","H","I","J","K","L","M",
               "N","O","P","Q","R","S","T","U","V","W","X","Y","Z">>
LowerCase == <<"a","b","c","d","e","f","g","h","i","j","k","l","m",
               "n","o","p","q","r","s","t","u","v","w","x","y","z">>

\* canonical form of a character under the regex's i flag
Lower(c) ==
    IF \E i \in DOMAIN UpperCase : UpperCase[i] = c
    THEN LowerCase[CHOOSE i \in DOMAIN UpperCase : UpperCase[i] = c]
    ELSE c

\* the class [^"&?\/\s]
IsIdChar(c) == c \notin {"\"", "&", "?", "/", " ", "\t", "\n", "\r"}

\* what . matches: anything but a line terminator
IsDot(c) == c \notin {"\n", "\r"}

\* ([^"&?\/\s]{11}) matches at position p
IdAt(s, p) ==
    /\ p + IdLen - 1 <= Len(s)
    /\ \A k \in p..(p + IdLen - 1) : IsIdChar(s[k])

\* a literal of the pattern matches at position i, ignoring case
LitAt(s, i, lit) ==
    /\ i + Len(lit) - 1 <= Len(s)
    /\ \A k \in 1..Len(lit) : Lower(s[i + k - 1]) = lit[k]

SetMax(S) == CHOOSE x \in S : \A y \in S : y <= x
SetMin(S) == CHOOSE x \in S : \A y \in S : x <= y

LitYoutubeCom == <<"y","o","u","t","u","b","e",".","c","o","m","/">>
LitYoutuBe == <<"y","o","u","t","u",".","b","e","/">>
LitKinds == << <<"v","/">>, <<"e","m","b","e","d","/">>, <<"e","/">>,
               <<"s","h","o","r","t","s","/">> >>

\* [^\/]+\/.+\/ from position j: the positions where the identifier may start
PathEnds(s, j) ==
    LET slashes == {q \in j..Len(s) : s[q] = "/"}
    IN  IF slashes = {} \/ SetMin(slashes) = j THEN {}
        ELSE LET q == SetMin(slashes)
             IN  {r + 1 : r \in {x \in (q + 2)..Len(s) :
                         /\ s[x] = "/"
                         /\ \A k \in (q + 1)..(x - 1) : IsDot(s[k])
                         /\ IdAt(s, x + 1)}}

\* (?:v|e(?:mbed)?|shorts)\/ from position j
KindEnds(s, j) ==
    {j + Len(LitKinds[n]) : n \in {m \in DOMAIN LitKinds :
         LitAt(s, j, LitKinds[m]) /\ IdAt(s, j + Len(LitKinds[m]))}}

\* .*[?&]v= from position j
QueryEnds(s, j) ==
    {t + 3 : t \in {x \in j..Len(s) :
         /\ \A k \in j..(x - 1) : IsDot(s[k])
         /\ s[x] \in {"?", "&"}
         /\ x + 2 <= Len(s)
         /\ Lower(s[x + 1]) = "v"
         /\ s[x + 2] = "="
         /\ IdAt(s, x + 3)}}

\* Where group 1 starts for a match of RE_YOUTUBE that starts at i, 0 if there
\* is none: the alternatives in the pattern's order, each quantifier greedy.
GroupStart(s, i) ==
    IF LitAt(s, i, LitYoutubeCom)
    THEN LET j == i + Len(LitYoutubeCom)
         IN  IF PathEnds(s, j) # {} THEN SetMax(PathEnds(s, j))
             ELSE IF KindEnds(s, j) # {} THEN SetMax(KindEnds(s, j))
             ELSE IF QueryEnds(s, j) # {} THEN SetMax(QueryEnds(s, j))
             ELSE 0
    ELSE IF LitAt(s, i, LitYoutuBe) /\ IdAt(s, i + Len(LitYoutuBe))
    THEN i + Len(LitYoutuBe)
    ELSE 0

\* videoId.match(RE_YOUTUBE): <<>> for null, else <<matchId[1]>>; the match is
\* the one with the leftmost start
RE_YOUTUBE(s) ==
    LET starts == {i \in 1..Len(s) : GroupStart(s, i) # 0}
    IN  IF starts = {} THEN <<>>
        ELSE LET p == GroupStart(s, SetMin(starts))
             IN  <<SubSeq(s, p, p + IdLen - 1)>>

\* errors: class is the name of the class thrown; the other fields are the
\* constructor's arguments ("" and <<>> where the class takes none)
Error(class, vid, method, lang, availableLangs) ==
    [class |-> class, videoId |-> vid, method |-> method, lang |-> lang,
     availableLangs |-> availableLangs]

NoError == Error("none", <<>>, "", "", <<>>)

\* the length test accepting every input of at least 11 characters
retrieveVideoId_AtLeast(v) ==
    IF Len(v) >= IdLen
    THEN [ok |-> TRUE, identifier |-> v, error |-> NoError]
    ELSE IF RE_YOUTUBE(v) # <<>>
    THEN [ok |-> TRUE, identifier |-> RE_YOUTUBE(v)[1], error |-> NoError]
    ELSE [ok |-> FALSE, identifier |-> <<>>,
          error |-> Error("YoutubeTranscriptError", <<>>, "", "", <<>>)]

\* the result of retrieveVideoId: the identifier, or the error thrown
retrieveVideoId(v) ==
    IF Len(v) = IdLen
    THEN [ok |-> TRUE, identifier |-> v, error |-> NoError]
    ELSE IF RE_YOUTUBE(v) # <<>>
    THEN [ok |-> TRUE, identifier |-> RE_YOUTUBE(v)[1], error |-> NoError]
    ELSE [ok |-> FALSE, identifier |-> <<>>,
          error |-> Error("YoutubeTranscriptError", <<>>, "", "", <<>>)]

(***************************************************************************)
(* Data: config, captions structures, responses                            *)
(***************************************************************************)
\* config?.lang: <<>> when config or lang is absent, else <<the string>>
Langs == {<<>>, <<"">>, <<"en">>, <<"fr">>}
Configs == [lang : Langs]

\* the truthiness of config?.lang (lines 100, 155, 212, 225, 234)
LangTruthy(c) == c.lang # <<>> /\ c.lang[1] # ""

LanguageCodes == {"en", "fr"}

\* the i-th track of a list has its own timed-text URL
BaseUrl(i) == <<"timedtext", i>>

TrackLists ==
    UNION {{[i \in 1..n |-> [languageCode |-> codes[i], baseUrl |-> BaseUrl(i)]] :
              codes \in [1..n -> LanguageCodes]} : n \in 0..MaxTracks}

\* the value of playerCaptionsTracklistRenderer: undefined (also what a null
\* or unparsable captions JSON gives, line 127), an object without the
\* captionTracks field, or an object with it; captionTracks is an array of
\* {languageCode, baseUrl} objects
Undefined == [type |-> "undefined", hasCaptionTracks |-> FALSE, captionTracks |-> <<>>]
CaptionsValues ==
    {Undefined}
    \cup {[type |-> "object", hasCaptionTracks |-> FALSE, captionTracks |-> <<>>]}
    \cup {[type |-> "object", hasCaptionTracks |-> TRUE, captionTracks |-> t] :
            t \in TrackLists}

\* the object under "captions": it holds the renderer or not
PlayerCaptions == [playerCaptionsTracklistRenderer : CaptionsValues]

\* the watch page: tokens in page order; json is the value every JSON token
\* of the page denotes
MarkerCaptions == "\"captions\":"
MarkerRecaptcha == "class=\"g-recaptcha\""
MarkerPlayability == "\"playabilityStatus\":"
MarkerVideoDetails == ",\"videoDetails"
Newline == "\n"
JsonText == "JSON"
PageTokens == {MarkerCaptions, MarkerRecaptcha, MarkerPlayability,
               MarkerVideoDetails, Newline, JsonText}
SeqsUpTo(S, n) == UNION {[1..k -> S] : k \in 0..n}
PageBodies == [toks : SeqsUpTo(PageTokens, MaxBody), json : PlayerCaptions]

\* the InnerTube player response, with or without a captions field
InnerTubeResponses == [hasCaptions : BOOLEAN, captions : PlayerCaptions]

\* the timed-text body: pieces in document order; a piece either has the
\* shape <text start="S" dur="D">TEXT</text> or is other text
OtherText == [match |-> FALSE, start |-> "", dur |-> "", text |-> ""]
TextPieces ==
    {[match |-> TRUE, start |-> "1.5", dur |-> "2.0", text |-> "Hello"],
     [match |-> TRUE, start |-> "", dur |-> "1", text |-> ""],
     OtherText}
TranscriptResponses ==
    {[ok |-> FALSE, body |-> <<>>]}
    \cup {[ok |-> TRUE, body |-> b] : b \in SeqsUpTo(TextPieces, MaxElems)}

\* inputs of fetchTranscript
Id1 == <<"d","Q","w","4","w","9","W","g","X","c","Q">>
VideoIds ==
    { Id1,
      <<"y","o","u","t","u",".","b","e","/","a","b">>,
      LitYoutuBe \o Id1,
      <<"h","t","t","p","s",":","/","/","w","w","w",".">> \o LitYoutubeCom
         \o <<"w","a","t","c","h","?","v","=">> \o Id1 \o <<"&","t","=","1">>,
      <<>>,
      <<"a","b","c">>,
      Id1 \o <<"x">>,
      LitYoutuBe \o <<"a","b","c">>,
      LitYoutubeCom \o <<"e","m","b","e","d","/">> \o <<"a","b","c","?","e","f","g","h","i","j","k">> }

(***************************************************************************)
(* Pure parts of the strategies                                            *)
(***************************************************************************)
Includes(s, tok) == \E i \in DOMAIN s : s[i] = tok

\* String.prototype.split on a marker: the pieces between its occurrences
RECURSIVE Split(_, _)
Split(s, sep) ==
    IF ~Includes(s, sep) THEN <<s>>
    ELSE LET i == SetMin({k \in DOMAIN s : s[k] = sep})
         IN  <<SubSeq(s, 1, i - 1)>> \o Split(SubSeq(s, i + 1, Len(s)), sep)

\* String.prototype.replace with a string pattern: the first occurrence only
ReplaceFirst(s, tok) ==
    IF ~Includes(s, tok) THEN s
    ELSE LET i == SetMin({k \in DOMAIN s : s[k] = tok})
         IN  SubSeq(s, 1, i - 1) \o SubSeq(s, i + 1, Len(s))

\* JSON.parse: one JSON text, newlines around it being white space; <<>> when
\* it throws, else <<the value>>
JSONparse(frag, json) ==
    IF SelectSeq(frag, LAMBDA t : t # Newline) = <<JsonText>> THEN <<json>> ELSE <<>>

\* lines 119-127: the captions value scraped from the page
ScrapeCaptions(body) ==
    LET splittedHTML == Split(body.toks, MarkerCaptions)
        parsed == JSONparse(ReplaceFirst(Split(splittedHTML[2], MarkerVideoDetails)[1],
                                         Newline), body.json)
    IN  IF parsed = <<>> THEN Undefined
        ELSE parsed[1].playerCaptionsTracklistRenderer

\* the playability test made before the CAPTCHA test
ClassifyPage_PlayabilityFirst(body, vid) ==
    IF ~Includes(body.toks, MarkerPlayability)
    THEN Error("YoutubeTranscriptVideoUnavailableError", vid, "", "", <<>>)
    ELSE IF Includes(body.toks, MarkerRecaptcha)
    THEN Error("YoutubeTranscriptTooManyRequestError", <<>>, "", "", <<>>)
    ELSE Error("YoutubeTranscriptDisabledError", vid, "", "", <<>>)

\* lines 109-117: the error of a page without the captions marker
ClassifyPage(body, vid) ==
    IF Includes(body.toks, MarkerRecaptcha)
    THEN Error("YoutubeTranscriptTooManyRequestError", <<>>, "", "", <<>>)
    ELSE IF ~Includes(body.toks, MarkerPlayability)
    THEN Error("YoutubeTranscriptVideoUnavailableError", vid, "", "", <<>>)
    ELSE Error("YoutubeTranscriptDisabledError", vid, "", "", <<>>)

\* the last track of the requested language instead of the first
SelectTrack_LastMatch(c, cfg) ==
    LET tracks == c.captionTracks
    IN  IF LangTruthy(cfg)
        THEN LET hits == {i \in DOMAIN tracks : tracks[i].languageCode = cfg.lang[1]}
             IN  IF hits = {} THEN <<>> ELSE <<tracks[SetMax(hits)]>>
        ELSE IF tracks = <<>> THEN <<>> ELSE <<tracks[1]>>

\* captions.captionTracks.find(track => track.languageCode === lang), or
\* captionTracks[0]: <<>> when undefined, else <<the track>>
SelectTrack(c, cfg) ==
    LET tracks == c.captionTracks
    IN  IF LangTruthy(cfg)
        THEN LET hits == {i \in DOMAIN tracks : tracks[i].languageCode = cfg.lang[1]}
             IN  IF hits = {} THEN <<>> ELSE <<tracks[SetMin(hits)]>>
        ELSE IF tracks = <<>> THEN <<>> ELSE <<tracks[1]>>

\* the test of the requested language (lines 211-222) left out
ValidateCaptions_NoLanguageTest(c, vid, cfg) ==
    IF c.type = "undefined"
    THEN [ok |-> FALSE, transcriptURL |-> <<>>,
          error |-> Error("YoutubeTranscriptDisabledError", vid, "", "", <<>>)]
    ELSE IF ~c.hasCaptionTracks
    THEN [ok |-> FALSE, transcriptURL |-> <<>>,
          error |-> Error("YoutubeTranscriptNotAvailableError", vid, "", "", <<>>)]
    ELSE IF SelectTrack(c, cfg) = <<>>
    THEN [ok |-> FALSE, transcriptURL |-> <<>>,
          error |-> Error("TypeError", <<>>, "", "", <<>>)]
    ELSE [ok |-> TRUE, transcriptURL |-> SelectTrack(c, cfg)[1].baseUrl,
          error |-> NoError]

\* lines 203-230 of processTranscriptFromCaptions: the error thrown before the
\* request, or the URL requested
ValidateCaptions(c, vid, cfg) ==
    IF c.type = "undefined"
    THEN [ok |-> FALSE, transcriptURL |-> <<>>,
          error |-> Error("YoutubeTranscriptDisabledError", vid, "", "", <<>>)]
    ELSE IF ~c.hasCaptionTracks
    THEN [ok |-> FALSE, transcriptURL |-> <<>>,
          error |-> Error("YoutubeTranscriptNotAvailableError", vid, "", "", <<>>)]
    ELSE IF /\ LangTruthy(cfg)
            /\ ~\E i \in DOMAIN c.captionTracks :
                   c.captionTracks[i].languageCode = cfg.lang[1]
    THEN [ok |-> FALSE, transcriptURL |-> <<>>,
          error |-> Error("YoutubeTranscriptNotAvailableLanguageError", vid, "",
                          cfg.lang[1],
                          [i \in DOMAIN c.captionTracks |->
                              c.captionTracks[i].languageCode])]
    ELSE IF SelectTrack(c, cfg) = <<>>
    THEN [ok |-> FALSE, transcriptURL |-> <<>>,
          error |-> Error("TypeError", <<>>, "", "", <<>>)]
    ELSE [ok |-> TRUE, transcriptURL |-> SelectTrack(c, cfg)[1].baseUrl,
          error |-> NoError]

\* parseFloat on the attribute values of the pieces: a number in tenths, or NaN
parseFloat(s) ==
    CASE s = "1.5" -> [nan |-> FALSE, tenths |-> 15]
      [] s = "2.0" -> [nan |-> FALSE, tenths |-> 20]
      [] s = "1"   -> [nan |-> FALSE, tenths |-> 10]
      [] OTHER     -> [nan |-> TRUE, tenths |-> 0]

\* transcriptBody.matchAll(RE_XML_TRANSCRIPT): the pieces of the shape, in order
RE_XML_TRANSCRIPT(body) == SelectSeq(body, LAMBDA p : p.match)

\* config?.lang ?? captions.captionTracks[0].languageCode (line 247)
SegmentLang(c, cfg) ==
    IF cfg.lang # <<>> THEN cfg.lang[1] ELSE c.captionTracks[1].languageCode

\* lines 242-248: the segments of a timed-text body
ParseTranscript(body, c, cfg) ==
    LET results == RE_XML_TRANSCRIPT(body)
    IN  [i \in DOMAIN results |->
            [text |-> results[i].text,
             duration |-> parseFloat(results[i].dur),
             offset |-> parseFloat(results[i].start),
             lang |-> SegmentLang(c, cfg)]]

\* the emptiness test left out
IsEmptyTranscript_Never(processedTranscript) == FALSE

\* !processedTranscript.length (lines 135 and 185)
IsEmptyTranscript(processedTranscript) == Len(processedTranscript) = 0

\* the catch block taking every error of the library for the trigger
IsEmptyError_AnyTranscriptError(e) == e.class # "TypeError"

\* e instanceof YoutubeTranscriptEmptyError (line 81)
IsEmptyError(e) == e.class = "YoutubeTranscriptEmptyError"

(***************************************************************************)
(* Requests                                                                *)
(***************************************************************************)
AcceptLanguage(cfg) == IF LangTruthy(cfg) THEN cfg.lang ELSE <<>>

\* GET https://www.youtube.com/watch?v=${identifier}
WatchRequest(identifier, cfg) ==
    [method |-> "GET", endpoint |-> "watch", identifier |-> identifier,
     baseUrl |-> <<>>, acceptLanguage |-> AcceptLanguage(cfg)]

\* POST https://www.youtube.com/youtubei/v1/player, videoId and Referer
PlayerRequest(identifier, cfg) ==
    [method |-> "POST", endpoint |-> "player", identifier |-> identifier,
     baseUrl |-> <<>>, acceptLanguage |-> AcceptLanguage(cfg)]

\* GET transcriptURL
TrackRequest(url, cfg) ==
    [method |-> "GET", endpoint |-> "track", identifier |-> <<>>,
     baseUrl |-> url, acceptLanguage |-> AcceptLanguage(cfg)]

(***************************************************************************)
(* State machine: one call of fetchTranscript                              *)
(*   pc = "idle"       before the call                                     *)
(*   pc = "videoPage"  awaiting the watch page (line 96)                   *)
(*   pc = "player"     awaiting the InnerTube response (line 172)          *)
(*   pc = "track"      awaiting the caption track (line 232)               *)
(*   pc = "done"       the promise of fetchTranscript is settled           *)
(* requests is the list of requests issued so far; caught is the error     *)
(* caught at line 80; the locals of a strategy are kept until the other    *)
(* strategy starts, videoPageBody until its last use (line 127).           *)
(***************************************************************************)
HtmlScraping == "HTML scraping"
InnerTube == "InnerTube API"

NoBody == [toks |-> <<>>, json |-> [playerCaptionsTracklistRenderer |-> Undefined]]
NoResponse == [ok |-> FALSE, body |-> <<>>]
NoApiResponse == [hasCaptions |-> FALSE,
                  captions |-> [playerCaptionsTracklistRenderer |-> Undefined]]
Pending == [status |-> "pending", value |-> <<>>, error |-> NoError]
Returned(segments) == [status |-> "returned", value |-> segments, error |-> NoError]
Thrown(e) == [status |-> "thrown", value |-> <<>>, error |-> e]

Init ==
    /\ pc = "idle"
    /\ videoId = <<>>
    /\ config = [lang |-> <<>>]
    /\ requests = <<>>
    /\ videoPageBody = NoBody
    /\ captions = Undefined
    /\ strategy = "none"
    /\ transcriptResponse = NoResponse
    /\ InnerTubeApiResponse = NoApiResponse
    /\ caught = NoError
    /\ outcome = Pending

\* lines 151-175: fetchTranscriptWithInnerTube up to its request, entered from
\* the catch block of fetchTranscript (line 82)
StartInnerTube ==
    LET r == retrieveVideoId(videoId)
    IN  /\ strategy' = InnerTube
        /\ videoPageBody' = NoBody
        /\ captions' = Undefined
        /\ transcriptResponse' = NoResponse
        /\ InnerTubeApiResponse' = NoApiResponse
        /\ IF r.ok
           THEN /\ requests' = Append(requests, PlayerRequest(r.identifier, config))
                /\ pc' = "player"
                /\ outcome' = outcome
           ELSE /\ requests' = requests
                /\ pc' = "done"
                /\ outcome' = Thrown(r.error)

\* the fallback started on every empty transcript, the fallback's own included
Throw_RetryAlways(e, body, c, resp, api) ==
    IF IsEmptyError(e)
    THEN /\ caught' = e
         /\ StartInnerTube
    ELSE /\ caught' = IF strategy = HtmlScraping THEN e ELSE caught
         /\ outcome' = Thrown(e)
         /\ pc' = "done"
         /\ requests' = requests
         /\ strategy' = strategy
         /\ videoPageBody' = body
         /\ captions' = c
         /\ transcriptResponse' = resp
         /\ InnerTubeApiResponse' = api

\* lines 78-86: what fetchTranscript does with an error e thrown by the
\* running strategy; body, c, resp and api are the strategy's locals
Throw(e, body, c, resp, api) ==
    IF strategy = HtmlScraping /\ IsEmptyError(e)
    THEN /\ caught' = e
         /\ StartInnerTube
    ELSE /\ caught' = IF strategy = HtmlScraping THEN e ELSE caught
         /\ outcome' = Thrown(e)
         /\ pc' = "done"
         /\ requests' = requests
         /\ strategy' = strategy
         /\ videoPageBody' = body
         /\ captions' = c
         /\ transcriptResponse' = resp
         /\ InnerTubeApiResponse' = api

\* lines 203-237: processTranscriptFromCaptions up to its request
StartProcessor(c, body, api) ==
    LET v == ValidateCaptions(c, videoId, config)
    IN  IF v.ok
        THEN /\ requests' = Append(requests, TrackRequest(v.transcriptURL, config))
             /\ pc' = "track"
             /\ captions' = c
             /\ videoPageBody' = NoBody
             /\ InnerTubeApiResponse' = api
             /\ UNCHANGED <<strategy, transcriptResponse, caught, outcome>>
        ELSE Throw(v.error, body, c, transcriptResponse, api)

\* lines 74-79 and 94-104: the call, retrieveVideoId and the watch-page request
FetchTranscriptCall(v, cfg) ==
    /\ videoId' = v
    /\ config' = cfg
    /\ UNCHANGED <<videoPageBody, captions, transcriptResponse, InnerTubeApiResponse>>
    /\ LET r == retrieveVideoId(v)
       IN  IF r.ok
           THEN /\ requests' = Append(requests, WatchRequest(r.identifier, cfg))
                /\ pc' = "videoPage"
                /\ strategy' = HtmlScraping
                /\ UNCHANGED <<caught, outcome>>
           ELSE /\ caught' = r.error
                /\ strategy' = HtmlScraping
                /\ pc' = "done"
                /\ outcome' = Thrown(r.error)
                /\ requests' = requests

\* lines 105-133: the watch page arrives
VideoPageArrives(body) ==
    /\ UNCHANGED <<videoId, config>>
    /\ IF Len(Split(body.toks, MarkerCaptions)) <= 1
       THEN Throw(ClassifyPage(body, videoId), body, captions,
                  transcriptResponse, InnerTubeApiResponse)
       ELSE StartProcessor(ScrapeCaptions(body), body, InnerTubeApiResponse)

\* lines 177-183: the InnerTube response arrives
PlayerResponseArrives(api) ==
    /\ UNCHANGED <<videoId, config>>
    /\ IF ~api.hasCaptions
       THEN Throw(Error("TypeError", <<>>, "", "", <<>>), videoPageBody, captions,
                  transcriptResponse, api)
       ELSE StartProcessor(api.captions.playerCaptionsTracklistRenderer,
                           videoPageBody, api)

\* lines 238-248, then 135-139 or 185-189: the caption track arrives
TranscriptArrives(resp) ==
    /\ UNCHANGED <<videoId, config>>
    /\ IF ~resp.ok
       THEN Throw(Error("YoutubeTranscriptNotAvailableError", videoId, "", "", <<>>),
                  videoPageBody, captions, resp, InnerTubeApiResponse)
       ELSE LET processedTranscript == ParseTranscript(resp.body, captions, config)
            IN  IF IsEmptyTranscript(processedTranscript)
                THEN Throw(Error("YoutubeTranscriptEmptyError", videoId, strategy, "", <<>>),
                           videoPageBody, captions, resp, InnerTubeApiResponse)
                ELSE /\ outcome' = Returned(processedTranscript)
                     /\ pc' = "done"
                     /\ transcriptResponse' = resp
                     /\ UNCHANGED <<requests, strategy, videoPageBody, captions,
                                    InnerTubeApiResponse, caught>>

\* the four steps of a call, each with its inputs drawn from the bounded sets
fetchTranscript ==
    /\ pc = "idle"
    /\ \E v \in VideoIds, cfg \in Configs : FetchTranscriptCall(v, cfg)

fetchTranscriptWithHtmlScraping ==
    /\ pc = "videoPage"
    /\ \E body \in PageBodies : VideoPageArrives(body)

fetchTranscriptWithInnerTube ==
    /\ pc = "player"
    /\ \E api \in InnerTubeResponses : PlayerResponseArrives(api)

processTranscriptFromCaptions ==
    /\ pc = "track"
    /\ \E resp \in TranscriptResponses : TranscriptArrives(resp)

Next ==
    \/ fetchTranscript
    \/ fetchTranscriptWithHtmlScraping
    \/ fetchTranscriptWithInnerTube
    \/ processTranscriptFromCaptions

Spec == Init /\ [][Next]_vars

(***************************************************************************)
(* Properties                                                              *)
(***************************************************************************)
Last(q) == q[Len(q)]
Count(q, endpoint) == Cardinality({i \in DOMAIN q : q[i].endpoint = endpoint})
NoMatch(resp) == \A i \in DOMAIN resp.body : ~resp.body[i].match

\* the seven kinds of the error taxonomy; the identifier-resolution failure is
\* thrown as the base class
TaxonomyClasses ==
    {"YoutubeTranscriptError",
     "YoutubeTranscriptTooManyRequestError",
     "YoutubeTranscriptVideoUnavailableError",
     "YoutubeTranscriptDisabledError",
     "YoutubeTranscriptNotAvailableError",
     "YoutubeTranscriptNotAvailableLanguageError",
     "YoutubeTranscriptEmptyError"}

\* C1: a call that completes successfully returns at least one segment, and a
\* call whose last caption-track body held no segment has failed with
\* EmptyTranscript: an empty parse result is never a successful result.
C1_NeverReturnedEmpty ==
    /\ outcome.status = "returned" => Len(outcome.value) >= 1
    /\ (pc = "done" /\ transcriptResponse.ok /\ NoMatch(transcriptResponse))
          => /\ outcome.status = "thrown"
             /\ outcome.error.class = "YoutubeTranscriptEmptyError"

C1_Witness ==
    /\ pc = "done"
    /\ outcome.status = "returned"
    /\ Len(outcome.value) = 1
    /\ Len(transcriptResponse.body) = 2

\* C2: the InnerTube request is issued only after the HTML-scrape strategy has
\* failed with EmptyTranscript (after its watch-page and caption-track
\* requests); an HTML-scrape failure of any other kind is the failure of the
\* call and no InnerTube request is issued.
C2_FallbackOnlyOnEmpty ==
    /\ \A i \in DOMAIN requests :
          requests[i].endpoint = "player"
             => /\ caught.class = "YoutubeTranscriptEmptyError"
                /\ caught.method = HtmlScraping
                /\ i = 3
                /\ requests[1].endpoint = "watch"
                /\ requests[2].endpoint = "track"
    /\ (caught # NoError /\ caught.class # "YoutubeTranscriptEmptyError")
          => /\ pc = "done"
             /\ outcome = Thrown(caught)
             /\ Count(requests, "player") = 0

C2_Witness ==
    /\ pc = "done"
    /\ caught.class = "YoutubeTranscriptNotAvailableLanguageError"
    /\ outcome = Thrown(caught)
    /\ Len(requests) = 1

\* C3: once the HTML-scrape strategy's processor has yielded zero segments, the
\* InnerTube strategy is run exactly once and settles the call: with the
\* segments of its caption track when there are some, with EmptyTranscript of
\* the InnerTube strategy when there are none, with no request after that.
C3_FallbackSettlesCall ==
    caught.class = "YoutubeTranscriptEmptyError"
       => /\ Count(requests, "player") = 1
          /\ strategy = InnerTube
          /\ Len(requests) <= 4
          /\ (pc = "done" /\ transcriptResponse.ok)
                => IF NoMatch(transcriptResponse)
                   THEN outcome = Thrown(Error("YoutubeTranscriptEmptyError",
                                               videoId, InnerTube, "", <<>>))
                   ELSE /\ outcome.status = "returned"
                        /\ Len(outcome.value) =
                              Cardinality({i \in DOMAIN transcriptResponse.body :
                                              transcriptResponse.body[i].match})
                        /\ Last(requests).endpoint = "track"
                        /\ captions =
                              InnerTubeApiResponse.captions.playerCaptionsTracklistRenderer

C3_Witness ==
    /\ pc = "done"
    /\ caught.class = "YoutubeTranscriptEmptyError"
    /\ outcome.status = "thrown"
    /\ outcome.error.class = "YoutubeTranscriptEmptyError"
    /\ outcome.error.method = InnerTube

\* C4, as claimed: every call that fails fails with a class of the taxonomy.
\* The code throws a TypeError at line 177 for an InnerTube response without a
\* captions field and at line 230 for an empty track list with no language.
C4_FailuresAreInTaxonomy ==
    (pc = "done" /\ outcome.status = "thrown")
       => outcome.error.class \in TaxonomyClasses

ProcessorRan ==
    \/ pc = "track"
    \/ /\ pc = "done"
       /\ requests # <<>>
       /\ \/ Last(requests).endpoint = "track"
          \/ strategy = HtmlScraping /\ Includes(videoPageBody.toks, MarkerCaptions)
          \/ strategy = InnerTube /\ InnerTubeApiResponse.hasCaptions

\* the processor threw e without a caption-track request of its strategy
RejectedWith(e) ==
    /\ pc = "done"
    /\ outcome = Thrown(e)
    /\ Count(requests, "track") = IF strategy = InnerTube THEN 1 ELSE 0

C7_SelectedTrack ==
    (requests # <<>> /\ Last(requests).endpoint = "track")
       => LET tracks == captions.captionTracks
          IN  /\ Count(requests, "track") = IF strategy = InnerTube THEN 2 ELSE 1
              /\ tracks # <<>>
              /\ IF LangTruthy(config)
                 THEN \E i \in DOMAIN tracks :
                         /\ tracks[i].languageCode = config.lang[1]
                         /\ \A j \in 1..(i - 1) : tracks[j].languageCode # config.lang[1]
                         /\ Last(requests).baseUrl = tracks[i].baseUrl
                 ELSE Last(requests).baseUrl = tracks[1].baseUrl

C7_Witness ==
    /\ pc = "track"
    /\ config.lang = <<"fr">>
    /\ Len(captions.captionTracks) = 2
    /\ captions.captionTracks[1].languageCode = "en"
    /\ Last(requests).baseUrl = captions.captionTracks[2].baseUrl

\* C8: an input that is not 11 characters long and holds no match of the URL
\* pattern makes the call fail with the identifier-resolution error and no
\* request at all; an input of 11 characters is the identifier of the
\* watch-page request and of the InnerTube request.
C8_IdentifierResolution ==
    pc # "idle"
       => /\ (Len(videoId) # IdLen /\ RE_YOUTUBE(videoId) = <<>>)
                => /\ pc = "done"
                   /\ outcome = Thrown(Error("YoutubeTranscriptError", <<>>, "", "", <<>>))
                   /\ requests = <<>>
          /\ Len(videoId) = IdLen
                => /\ requests # <<>>
                   /\ \A i \in DOMAIN requests :
                         requests[i].endpoint \in {"watch", "player"}
                            => requests[i].identifier = videoId

C8_Witness ==
    /\ pc = "done"
    /\ Len(videoId) = IdLen + 1
    /\ requests = <<>>
    /\ outcome.error.class = "YoutubeTranscriptError"

\* C9, as claimed: absent captions and captions with an empty track list each
\* make the call fail with a class of the taxonomy, and not with the same one.
\* With no language requested the empty list ends in the TypeError of line 230.
C9_AbsentAndEmptyAreDistinctFailures ==
    ProcessorRan
       => /\ captions.type = "undefined"
                => /\ pc = "done"
                   /\ outcome.status = "thrown"
                   /\ outcome.error.class = "YoutubeTranscriptDisabledError"
          /\ (/\ captions.type = "object"
              /\ captions.hasCaptionTracks
              /\ captions.captionTracks = <<>>)
                => /\ pc = "done"
                   /\ outcome.status = "thrown"
                   /\ outcome.error.class
                         \in TaxonomyClasses \ {"YoutubeTranscriptDisabledError"}

\* C10, as claimed: every segment returned carries the languageCode of the
\* track whose baseUrl was fetched.  With lang the empty string the first
\* track is fetched (line 225) and the segments carry "" (line 247).
C10_LangIsFetchedTrack ==
    outcome.status = "returned"
       => \A i \in DOMAIN outcome.value :
             \E k \in DOMAIN captions.captionTracks :
                /\ captions.captionTracks[k].baseUrl = Last(requests).baseUrl
                /\ outcome.value[i].lang = captions.captionTracks[k].languageCode

====
